---- MODULE Spec2Model ----
(***************************************************************************)
(* MAXRECTS bin packer of SpriteSheetsGenerator (rbp::MaxRectsBinPack).   *)
(* The packer state is the bin size, the free-rectangle list and the      *)
(* used-rectangle list; the operations are init, the single insert, the   *)
(* batch insert (one step per round of its while loop), pruneFreeList and *)
(* splitFreeNode.                                                         *)
(* Lists are sequences, indexed from 1 where the C++ indexes from 0.      *)
(* All dimensions of the model are far below 2^15, so no int product of   *)
(* the code overflows and the arithmetic is exact.                        *)
(***************************************************************************)
EXTENDS Integers, Sequences, FiniteSets, TLC

VARIABLES binWidth, binHeight, freeRectangles, usedRectangles,
          pc, rects, dst, method, op, ret, rotation, returnedArea, committed,
          pruneInput, splitArgs, splitRet

vars == <<binWidth, binHeight, freeRectangles, usedRectangles,
          pc, rects, dst, method, op, ret, rotation, returnedArea, committed,
          pruneInput, splitArgs, splitRet>>

(***************************************************************************)
(* Bounds of the model.                                                    *)
(***************************************************************************)
\* the single insert is offered while fewer than MaxUsed rectangles are placed,
\* the batch insert while a pending list of full length stays within MaxUsed
MaxUsed == 3
\* longest pending list handed to the batch insert
MaxPending == 2
\* longest free list handed to pruneFreeList on its own
MaxPruneLen == 3
\* the rectangles handed to splitFreeNode on its own have their corner in
\* 0..MaxSplit-1 and sides in 1..MaxSplit
MaxSplit == 3

\* std::numeric_limits<int>::max()
IntMax == 2147483647

(***************************************************************************)
(* Rect.h                                                                  *)
(***************************************************************************)
Rect(x, y, width, height) == [x |-> x, y |-> y, width |-> width, height |-> height]

RectSize(width, height) == [width |-> width, height |-> height]

\* Rect newNode = {}: every member value-initialised
ZeroRect == Rect(0, 0, 0, 0)

\* DisjointRectCollection::disjoint(a, b)
disjoint(a, b) ==
    \/ a.x + a.width <= b.x
    \/ b.x + b.width <= a.x
    \/ a.y + a.height <= b.y
    \/ b.y + b.height <= a.y

\* isContainedIn is declared in Rect.h and defined in Rect.cpp, which is not
\* among the sources; its body is the spec's "a lies entirely within b".
isContainedIn(a, b) ==
    /\ a.x >= b.x
    /\ a.y >= b.y
    /\ a.x + a.width <= b.x + b.width
    /\ a.y + a.height <= b.y + b.height

(***************************************************************************)
(* Helpers standing for the standard library.                              *)
(***************************************************************************)
abs(v) == IF v < 0 THEN -v ELSE v

min(a, b) == IF b < a THEN b ELSE a

max(a, b) == IF a < b THEN b ELSE a

\* std::vector::erase(begin() + i), with i counted from 1
Erase(s, i) == [k \in 1..(Len(s) - 1) |-> IF k < i THEN s[k] ELSE s[k + 1]]

Heuristics == {"RectBestShortSideFit", "RectBestLongSideFit", "RectBestAreaFit",
               "RectBottomLeftRule", "RectContactPointRule"}

(***************************************************************************)
(* findPositionForNewNodeBottomLeft                                        *)
(***************************************************************************)
BottomLeftVisit(best, freeRect, width, height) ==
    LET topSideY == freeRect.y + height
        up == IF /\ freeRect.width >= width /\ freeRect.height >= height
                 /\ (topSideY < best.bestY \/ (topSideY = best.bestY /\ freeRect.x < best.bestX))
              THEN [bestNode |-> Rect(freeRect.x, freeRect.y, width, height),
                    bestY |-> topSideY, bestX |-> freeRect.x]
              ELSE best
        flippedTopSideY == freeRect.y + width
    IN  IF /\ freeRect.width >= height /\ freeRect.height >= width
           /\ (flippedTopSideY < up.bestY \/ (flippedTopSideY = up.bestY /\ freeRect.x < up.bestX))
        THEN [bestNode |-> Rect(freeRect.x, freeRect.y, height, width),
              bestY |-> flippedTopSideY, bestX |-> freeRect.x]
        ELSE up

RECURSIVE BottomLeftLoop(_, _, _, _, _)
BottomLeftLoop(free, k, width, height, best) ==
    IF k > Len(free) THEN best
    ELSE BottomLeftLoop(free, k + 1, width, height, BottomLeftVisit(best, free[k], width, height))

\* the scan starting at the second free rectangle
findPositionForNewNodeBottomLeftFromSecond(free, width, height) ==
    BottomLeftLoop(free, 2, width, height,
                   [bestNode |-> ZeroRect, bestY |-> IntMax, bestX |-> IntMax])

findPositionForNewNodeBottomLeft(free, width, height) ==
    BottomLeftLoop(free, 1, width, height,
                   [bestNode |-> ZeroRect, bestY |-> IntMax, bestX |-> IntMax])

(***************************************************************************)
(* findPositionForNewNodeBestShortSideFit                                  *)
(***************************************************************************)
BestShortSideFitVisit(best, freeRect, width, height) ==
    LET leftoverHoriz == abs(freeRect.width - width)
        leftoverVert == abs(freeRect.height - height)
        shortSideFit == min(leftoverHoriz, leftoverVert)
        longSideFit == max(leftoverHoriz, leftoverVert)
        up == IF /\ freeRect.width >= width /\ freeRect.height >= height
                 /\ (shortSideFit < best.bestShortSideFit
                     \/ (shortSideFit = best.bestShortSideFit /\ longSideFit < best.bestLongSideFit))
              THEN [bestNode |-> Rect(freeRect.x, freeRect.y, width, height),
                    bestShortSideFit |-> shortSideFit, bestLongSideFit |-> longSideFit]
              ELSE best
        flippedLeftoverHoriz == abs(freeRect.width - height)
        flippedLeftoverVert == abs(freeRect.height - width)
        flippedShortSideFit == min(flippedLeftoverHoriz, flippedLeftoverVert)
        flippedLongSideFit == max(flippedLeftoverHoriz, flippedLeftoverVert)
    IN  IF /\ freeRect.width >= height /\ freeRect.height >= width
           /\ (flippedShortSideFit < up.bestShortSideFit
               \/ (flippedShortSideFit = up.bestShortSideFit /\ flippedLongSideFit < up.bestLongSideFit))
        THEN [bestNode |-> Rect(freeRect.x, freeRect.y, height, width),
              bestShortSideFit |-> flippedShortSideFit, bestLongSideFit |-> flippedLongSideFit]
        ELSE up

RECURSIVE BestShortSideFitLoop(_, _, _, _, _)
BestShortSideFitLoop(free, k, width, height, best) ==
    IF k > Len(free) THEN best
    ELSE BestShortSideFitLoop(free, k + 1, width, height,
                              BestShortSideFitVisit(best, free[k], width, height))

findPositionForNewNodeBestShortSideFit(free, width, height) ==
    BestShortSideFitLoop(free, 1, width, height,
                         [bestNode |-> ZeroRect, bestShortSideFit |-> IntMax, bestLongSideFit |-> IntMax])

(***************************************************************************)
(* findPositionForNewNodeBestLongSideFit                                   *)
(***************************************************************************)
\* the visit of BestLongSideFit comparing the short side first
BestLongSideFitVisitShortFirst(best, freeRect, width, height) ==
    LET leftoverHoriz == abs(freeRect.width - width)
        leftoverVert == abs(freeRect.height - height)
        shortSideFit == min(leftoverHoriz, leftoverVert)
        longSideFit == max(leftoverHoriz, leftoverVert)
        up == IF /\ freeRect.width >= width /\ freeRect.height >= height
                 /\ (shortSideFit < best.bestShortSideFit
                     \/ (shortSideFit = best.bestShortSideFit /\ longSideFit < best.bestLongSideFit))
              THEN [bestNode |-> Rect(freeRect.x, freeRect.y, width, height),
                    bestShortSideFit |-> shortSideFit, bestLongSideFit |-> longSideFit]
              ELSE best
        flippedLeftoverHoriz == abs(freeRect.width - height)
        flippedLeftoverVert == abs(freeRect.height - width)
        flippedShortSideFit == min(flippedLeftoverHoriz, flippedLeftoverVert)
        flippedLongSideFit == max(flippedLeftoverHoriz, flippedLeftoverVert)
    IN  IF /\ freeRect.width >= height /\ freeRect.height >= width
           /\ (flippedShortSideFit < up.bestShortSideFit
               \/ (flippedShortSideFit = up.bestShortSideFit /\ flippedLongSideFit < up.bestLongSideFit))
        THEN [bestNode |-> Rect(freeRect.x, freeRect.y, height, width),
              bestShortSideFit |-> flippedShortSideFit, bestLongSideFit |-> flippedLongSideFit]
        ELSE up

BestLongSideFitVisit(best, freeRect, width, height) ==
    LET leftoverHoriz == abs(freeRect.width - width)
        leftoverVert == abs(freeRect.height - height)
        shortSideFit == min(leftoverHoriz, leftoverVert)
        longSideFit == max(leftoverHoriz, leftoverVert)
        up == IF /\ freeRect.width >= width /\ freeRect.height >= height
                 /\ (longSideFit < best.bestLongSideFit
                     \/ (longSideFit = best.bestLongSideFit /\ shortSideFit < best.bestShortSideFit))
              THEN [bestNode |-> Rect(freeRect.x, freeRect.y, width, height),
                    bestShortSideFit |-> shortSideFit, bestLongSideFit |-> longSideFit]
              ELSE best
        flippedLeftoverHoriz == abs(freeRect.width - height)
        flippedLeftoverVert == abs(freeRect.height - width)
        flippedShortSideFit == min(flippedLeftoverHoriz, flippedLeftoverVert)
        flippedLongSideFit == max(flippedLeftoverHoriz, flippedLeftoverVert)
    IN  IF /\ freeRect.width >= height /\ freeRect.height >= width
           /\ (flippedLongSideFit < up.bestLongSideFit
               \/ (flippedLongSideFit = up.bestLongSideFit /\ flippedShortSideFit < up.bestShortSideFit))
        THEN [bestNode |-> Rect(freeRect.x, freeRect.y, height, width),
              bestShortSideFit |-> flippedShortSideFit, bestLongSideFit |-> flippedLongSideFit]
        ELSE up

RECURSIVE BestLongSideFitLoop(_, _, _, _, _)
BestLongSideFitLoop(free, k, width, height, best) ==
    IF k > Len(free) THEN best
    ELSE BestLongSideFitLoop(free, k + 1, width, height,
                             BestLongSideFitVisit(best, free[k], width, height))

findPositionForNewNodeBestLongSideFit(free, width, height) ==
    BestLongSideFitLoop(free, 1, width, height,
                        [bestNode |-> ZeroRect, bestShortSideFit |-> IntMax, bestLongSideFit |-> IntMax])

(***************************************************************************)
(* findPositionForNewNodeBestAreaFit                                       *)
(***************************************************************************)
\* the flipped branch storing the upright width and height
BestAreaFitVisitFlipStoresUpright(best, freeRect, width, height) ==
    LET areaFit == freeRect.width * freeRect.height - width * height
        leftoverHoriz == abs(freeRect.width - width)
        leftoverVert == abs(freeRect.height - height)
        shortSideFit == min(leftoverHoriz, leftoverVert)
        up == IF /\ freeRect.width >= width /\ freeRect.height >= height
                 /\ (areaFit < best.bestAreaFit
                     \/ (areaFit = best.bestAreaFit /\ shortSideFit < best.bestShortSideFit))
              THEN [bestNode |-> Rect(freeRect.x, freeRect.y, width, height),
                    bestAreaFit |-> areaFit, bestShortSideFit |-> shortSideFit]
              ELSE best
        flippedLeftoverHoriz == abs(freeRect.width - height)
        flippedLeftoverVert == abs(freeRect.height - width)
        flippedShortSideFit == min(flippedLeftoverHoriz, flippedLeftoverVert)
    IN  IF /\ freeRect.width >= height /\ freeRect.height >= width
           /\ (areaFit < up.bestAreaFit
               \/ (areaFit = up.bestAreaFit /\ flippedShortSideFit < up.bestShortSideFit))
        THEN [bestNode |-> Rect(freeRect.x, freeRect.y, width, height),
              bestAreaFit |-> areaFit, bestShortSideFit |-> flippedShortSideFit]
        ELSE up

BestAreaFitVisit(best, freeRect, width, height) ==
    LET areaFit == freeRect.width * freeRect.height - width * height
        leftoverHoriz == abs(freeRect.width - width)
        leftoverVert == abs(freeRect.height - height)
        shortSideFit == min(leftoverHoriz, leftoverVert)
        up == IF /\ freeRect.width >= width /\ freeRect.height >= height
                 /\ (areaFit < best.bestAreaFit
                     \/ (areaFit = best.bestAreaFit /\ shortSideFit < best.bestShortSideFit))
              THEN [bestNode |-> Rect(freeRect.x, freeRect.y, width, height),
                    bestAreaFit |-> areaFit, bestShortSideFit |-> shortSideFit]
              ELSE best
        flippedLeftoverHoriz == abs(freeRect.width - height)
        flippedLeftoverVert == abs(freeRect.height - width)
        flippedShortSideFit == min(flippedLeftoverHoriz, flippedLeftoverVert)
    IN  IF /\ freeRect.width >= height /\ freeRect.height >= width
           /\ (areaFit < up.bestAreaFit
               \/ (areaFit = up.bestAreaFit /\ flippedShortSideFit < up.bestShortSideFit))
        THEN [bestNode |-> Rect(freeRect.x, freeRect.y, height, width),
              bestAreaFit |-> areaFit, bestShortSideFit |-> flippedShortSideFit]
        ELSE up

RECURSIVE BestAreaFitLoop(_, _, _, _, _)
BestAreaFitLoop(free, k, width, height, best) ==
    IF k > Len(free) THEN best
    ELSE BestAreaFitLoop(free, k + 1, width, height,
                         BestAreaFitVisit(best, free[k], width, height))

findPositionForNewNodeBestAreaFit(free, width, height) ==
    BestAreaFitLoop(free, 1, width, height,
                    [bestNode |-> ZeroRect, bestAreaFit |-> IntMax, bestShortSideFit |-> IntMax])

(***************************************************************************)
(* commonIntervalLength, contactPointScoreNode,                            *)
(* findPositionForNewNodeContactPoint                                      *)
(***************************************************************************)
commonIntervalLength(i1Start, i1End, i2Start, i2End) ==
    IF i1End < i2Start \/ i2End < i1Start THEN 0
    ELSE min(i1End, i2End) - max(i1Start, i2Start)

RECURSIVE UsedContactLoop(_, _, _, _, _, _)
UsedContactLoop(used, k, x, y, width, height) ==
    IF k > Len(used) THEN 0
    ELSE LET usedRect == used[k]
             side == IF usedRect.x = x + width \/ usedRect.x + usedRect.width = x
                     THEN commonIntervalLength(usedRect.y, usedRect.y + usedRect.height, y, y + height)
                     ELSE 0
             level == IF usedRect.y = y + height \/ usedRect.y + usedRect.height = y
                      THEN commonIntervalLength(usedRect.x, usedRect.x + usedRect.width, x, x + width)
                      ELSE 0
         IN  side + level + UsedContactLoop(used, k + 1, x, y, width, height)

\* the contact score without the edges shared with used rectangles
contactPointScoreNodeBinOnly(used, bw, bh, x, y, width, height) ==
    (IF x = 0 \/ x + width = bw THEN height ELSE 0)
    + (IF y = 0 \/ y + height = bh THEN width ELSE 0)

contactPointScoreNode(used, bw, bh, x, y, width, height) ==
    (IF x = 0 \/ x + width = bw THEN height ELSE 0)
    + (IF y = 0 \/ y + height = bh THEN width ELSE 0)
    + UsedContactLoop(used, 1, x, y, width, height)

ContactPointVisit(best, freeRect, used, bw, bh, width, height) ==
    LET score == contactPointScoreNode(used, bw, bh, freeRect.x, freeRect.y, width, height)
        up == IF /\ freeRect.width >= width /\ freeRect.height >= height
                 /\ score > best.contactScore
              THEN [bestNode |-> Rect(freeRect.x, freeRect.y, width, height), contactScore |-> score]
              ELSE best
        flippedScore == contactPointScoreNode(used, bw, bh, freeRect.x, freeRect.y, height, width)
    IN  IF /\ freeRect.width >= height /\ freeRect.height >= width
           /\ flippedScore > up.contactScore
        THEN [bestNode |-> Rect(freeRect.x, freeRect.y, height, width), contactScore |-> flippedScore]
        ELSE up

RECURSIVE ContactPointLoop(_, _, _, _, _, _, _, _)
ContactPointLoop(free, k, used, bw, bh, width, height, best) ==
    IF k > Len(free) THEN best
    ELSE ContactPointLoop(free, k + 1, used, bw, bh, width, height,
                          ContactPointVisit(best, free[k], used, bw, bh, width, height))

findPositionForNewNodeContactPoint(free, used, bw, bh, width, height) ==
    ContactPointLoop(free, 1, used, bw, bh, width, height,
                     [bestNode |-> ZeroRect, contactScore |-> -1])

(***************************************************************************)
(* splitFreeNode: whether freeNode was split, and the residuals it pushed  *)
(* to the back of freeRectangles, in push order.                           *)
(***************************************************************************)
\* the residual above the used node (smaller y), lines 405-410
TopResidual(freeNode, usedNode) ==
    IF usedNode.y > freeNode.y /\ usedNode.y < freeNode.y + freeNode.height
    THEN <<[freeNode EXCEPT !.height = usedNode.y - freeNode.y]>>
    ELSE <<>>

\* the residual below the used node, its y left at the top of the free node
BottomResidualKeepsY(freeNode, usedNode) ==
    IF usedNode.y + usedNode.height < freeNode.y + freeNode.height
    THEN <<[freeNode EXCEPT
              !.height = freeNode.y + freeNode.height - (usedNode.y + usedNode.height)]>>
    ELSE <<>>

\* the residual below the used node, lines 412-418
BottomResidual(freeNode, usedNode) ==
    IF usedNode.y + usedNode.height < freeNode.y + freeNode.height
    THEN <<[freeNode EXCEPT
              !.y = usedNode.y + usedNode.height,
              !.height = freeNode.y + freeNode.height - (usedNode.y + usedNode.height)]>>
    ELSE <<>>

\* a left residual that keeps the width of freeNode
LeftResidualKeepsWidth(freeNode, usedNode) ==
    IF usedNode.x > freeNode.x /\ usedNode.x < freeNode.x + freeNode.width
    THEN <<freeNode>>
    ELSE <<>>

\* the residual left of the used node, lines 422-427
LeftResidual(freeNode, usedNode) ==
    IF usedNode.x > freeNode.x /\ usedNode.x < freeNode.x + freeNode.width
    THEN <<[freeNode EXCEPT !.width = usedNode.x - freeNode.x]>>
    ELSE <<>>

\* a right residual that keeps the width of freeNode
RightResidualKeepsWidth(freeNode, usedNode) ==
    IF usedNode.x + usedNode.width < freeNode.x + freeNode.width
    THEN <<[freeNode EXCEPT !.x = usedNode.x + usedNode.width]>>
    ELSE <<>>

\* the residual right of the used node, lines 429-435
RightResidual(freeNode, usedNode) ==
    IF usedNode.x + usedNode.width < freeNode.x + freeNode.width
    THEN <<[freeNode EXCEPT
              !.x = usedNode.x + usedNode.width,
              !.width = freeNode.x + freeNode.width - (usedNode.x + usedNode.width)]>>
    ELSE <<>>

\* a split that pushes the residuals above and below the used node only
splitFreeNodeAboveBelowOnly(freeNode, usedNode) ==
    IF \/ usedNode.x >= freeNode.x + freeNode.width
       \/ usedNode.x + usedNode.width <= freeNode.x
       \/ usedNode.y >= freeNode.y + freeNode.height
       \/ usedNode.y + usedNode.height <= freeNode.y
    THEN [split |-> FALSE, pushed |-> <<>>]
    ELSE [split |-> TRUE,
          pushed |-> TopResidual(freeNode, usedNode) \o BottomResidual(freeNode, usedNode)]

splitFreeNode(freeNode, usedNode) ==
    IF \/ usedNode.x >= freeNode.x + freeNode.width
       \/ usedNode.x + usedNode.width <= freeNode.x
       \/ usedNode.y >= freeNode.y + freeNode.height
       \/ usedNode.y + usedNode.height <= freeNode.y
    THEN [split |-> FALSE, pushed |-> <<>>]
    ELSE LET xOverlap == usedNode.x < freeNode.x + freeNode.width
                         /\ usedNode.x + usedNode.width > freeNode.x
             yOverlap == usedNode.y < freeNode.y + freeNode.height
                         /\ usedNode.y + usedNode.height > freeNode.y
         IN  [split |-> TRUE,
              pushed |-> (IF xOverlap
                          THEN TopResidual(freeNode, usedNode) \o BottomResidual(freeNode, usedNode)
                          ELSE <<>>)
                         \o (IF yOverlap
                             THEN LeftResidual(freeNode, usedNode) \o RightResidual(freeNode, usedNode)
                             ELSE <<>>)]

(***************************************************************************)
(* pruneFreeList: the pair loop, with i and j counted from 1.  After the   *)
(* erase of i the C++ does --i; break; and the for's ++i, so the outer     *)
(* loop goes on at the same i; after the erase of j it does --j and the    *)
(* for's ++j, so the inner loop goes on at the same j.                     *)
(***************************************************************************)
\* the pair loop without the --j after the erase of j
RECURSIVE PruneLoopSkipsAfterErase(_, _, _)
PruneLoopSkipsAfterErase(free, i, j) ==
    IF i > Len(free) THEN free
    ELSE IF j > Len(free) THEN PruneLoopSkipsAfterErase(free, i + 1, i + 2)
    ELSE IF isContainedIn(free[i], free[j]) THEN PruneLoopSkipsAfterErase(Erase(free, i), i, i + 1)
    ELSE IF isContainedIn(free[j], free[i]) THEN PruneLoopSkipsAfterErase(Erase(free, j), i, j + 1)
    ELSE PruneLoopSkipsAfterErase(free, i, j + 1)

RECURSIVE PruneLoop(_, _, _)
PruneLoop(free, i, j) ==
    IF i > Len(free) THEN free
    ELSE IF j > Len(free) THEN PruneLoop(free, i + 1, i + 2)
    ELSE IF isContainedIn(free[i], free[j]) THEN PruneLoop(Erase(free, i), i, i + 1)
    ELSE IF isContainedIn(free[j], free[i]) THEN PruneLoop(Erase(free, j), i, j)
    ELSE PruneLoop(free, i, j + 1)

pruneFreeList(free) == PruneLoop(free, 1, 2)

(***************************************************************************)
(* The split loop of insert and of placeRect: the first                    *)
(* numRectanglesToProcess entries are split against the node; a split      *)
(* entry is erased after its residuals were pushed to the back.            *)
(***************************************************************************)
\* the split loop without the --i after the erase
RECURSIVE SplitLoopSkipsAfterErase(_, _, _, _)
SplitLoopSkipsAfterErase(free, i, numRectanglesToProcess, node) ==
    IF i > numRectanglesToProcess THEN free
    ELSE LET r == splitFreeNode(free[i], node)
         IN  IF r.split
             THEN SplitLoopSkipsAfterErase(Erase(free \o r.pushed, i), i + 1,
                                           numRectanglesToProcess - 1, node)
             ELSE SplitLoopSkipsAfterErase(free, i + 1, numRectanglesToProcess, node)

RECURSIVE SplitLoop(_, _, _, _)
SplitLoop(free, i, numRectanglesToProcess, node) ==
    IF i > numRectanglesToProcess THEN free
    ELSE LET r == splitFreeNode(free[i], node)
         IN  IF r.split
             THEN SplitLoop(Erase(free \o r.pushed, i), i, numRectanglesToProcess - 1, node)
             ELSE SplitLoop(free, i + 1, numRectanglesToProcess, node)

\* placeRect: the lists after the call
placeRect(free, used, node) ==
    [free |-> pruneFreeList(SplitLoop(free, 1, Len(free), node)),
     used |-> Append(used, node)]

\* the switch of insert: the node the selected heuristic finds
FindPosition(free, used, bw, bh, width, height, m) ==
    CASE m = "RectBestShortSideFit" -> findPositionForNewNodeBestShortSideFit(free, width, height).bestNode
      [] m = "RectBottomLeftRule" -> findPositionForNewNodeBottomLeft(free, width, height).bestNode
      [] m = "RectContactPointRule" -> findPositionForNewNodeContactPoint(free, used, bw, bh, width, height).bestNode
      [] m = "RectBestLongSideFit" -> findPositionForNewNodeBestLongSideFit(free, width, height).bestNode
      [] m = "RectBestAreaFit" -> findPositionForNewNodeBestAreaFit(free, width, height).bestNode

\* insert from line 67 on, without the early return on the sentinel
InsertFoundNoEarlyReturn(free, used, newNode) ==
    [newNode |-> newNode,
     free |-> pruneFreeList(SplitLoop(free, 1, Len(free), newNode)),
     used |-> Append(used, newNode)]

\* insert from line 67 on, newNode being the node the heuristic found
InsertFound(free, used, newNode) ==
    IF newNode.height = 0
    THEN [newNode |-> newNode, free |-> free, used |-> used]
    ELSE [newNode |-> newNode,
          free |-> pruneFreeList(SplitLoop(free, 1, Len(free), newNode)),
          used |-> Append(used, newNode)]

\* insert(width, height, method): the returned node and the lists after the call
insertRect(free, used, bw, bh, width, height, m) ==
    InsertFound(free, used, FindPosition(free, used, bw, bh, width, height, m))

\* scoreRect from line 150 on: the scores of a node of height 0 are reset
ScoreResult(newNode, score1, score2) ==
    IF newNode.height = 0
    THEN [newNode |-> newNode, score1 |-> IntMax, score2 |-> IntMax]
    ELSE [newNode |-> newNode, score1 |-> score1, score2 |-> score2]

\* the cases of the switch of scoreRect, f being what the heuristic found
BestShortSideFitScore(f) == ScoreResult(f.bestNode, f.bestShortSideFit, f.bestLongSideFit)

BottomLeftScore(f) == ScoreResult(f.bestNode, f.bestY, f.bestX)

ContactPointScore(f) == ScoreResult(f.bestNode, -f.contactScore, IntMax)

BestLongSideFitScore(f) == ScoreResult(f.bestNode, f.bestLongSideFit, f.bestShortSideFit)

BestAreaFitScore(f) == ScoreResult(f.bestNode, f.bestAreaFit, f.bestShortSideFit)

\* scoreRect: the node and the two scores it reports
scoreRect(free, used, bw, bh, width, height, m) ==
    CASE m = "RectBestShortSideFit" ->
             BestShortSideFitScore(findPositionForNewNodeBestShortSideFit(free, width, height))
      [] m = "RectBottomLeftRule" ->
             BottomLeftScore(findPositionForNewNodeBottomLeft(free, width, height))
      [] m = "RectContactPointRule" ->
             ContactPointScore(findPositionForNewNodeContactPoint(free, used, bw, bh, width, height))
      [] m = "RectBestLongSideFit" ->
             BestLongSideFitScore(findPositionForNewNodeBestLongSideFit(free, width, height))
      [] m = "RectBestAreaFit" ->
             BestAreaFitScore(findPositionForNewNodeBestAreaFit(free, width, height))

(***************************************************************************)
(* One round of the batch insert: the for loop over the pending sizes.     *)
(* bestRectIndex is counted from 1, and 0 stands for the code's -1.        *)
(***************************************************************************)
\* the comparison of the round's loop on score1 alone
BetterPendingNoTieBreak(best, s, i) ==
    IF s.score1 < best.bestScore1
    THEN [bestScore1 |-> s.score1, bestScore2 |-> s.score2,
          bestNode |-> s.newNode, bestRectIndex |-> i]
    ELSE best

\* lines 99-104: the best so far after the i-th pending size scored s
BetterPending(best, s, i) ==
    IF s.score1 < best.bestScore1 \/ (s.score1 = best.bestScore1 /\ s.score2 < best.bestScore2)
    THEN [bestScore1 |-> s.score1, bestScore2 |-> s.score2,
          bestNode |-> s.newNode, bestRectIndex |-> i]
    ELSE best

RECURSIVE BestPendingLoop(_, _, _, _, _, _, _, _)
BestPendingLoop(pending, i, free, used, bw, bh, m, best) ==
    IF i > Len(pending) THEN best
    ELSE BestPendingLoop(pending, i + 1, free, used, bw, bh, m,
             BetterPending(best,
                           scoreRect(free, used, bw, bh, pending[i].width, pending[i].height, m),
                           i))

\* the round's loop starting at the second pending size
BestPendingFromSecond(pending, free, used, bw, bh, m) ==
    BestPendingLoop(pending, 2, free, used, bw, bh, m,
                    [bestScore1 |-> IntMax, bestScore2 |-> IntMax,
                     bestNode |-> ZeroRect, bestRectIndex |-> 0])

BestPending(pending, free, used, bw, bh, m) ==
    BestPendingLoop(pending, 1, free, used, bw, bh, m,
                    [bestScore1 |-> IntMax, bestScore2 |-> IntMax,
                     bestNode |-> ZeroRect, bestRectIndex |-> 0])

(***************************************************************************)
(* occupancy: usedSurfaceArea, its numerator; the denominator is           *)
(* binWidth * binHeight.                                                   *)
(***************************************************************************)
RECURSIVE UsedAreaLoop(_, _)
UsedAreaLoop(used, k) ==
    IF k > Len(used) THEN 0
    ELSE used[k].width * used[k].height + UsedAreaLoop(used, k + 1)

usedSurfaceArea(used) == UsedAreaLoop(used, 1)

(***************************************************************************)
(* Inputs.                                                                 *)
(***************************************************************************)
\* the bins of the spec's scenarios A (4x4) and B, C (10x10), and one that is not square
Bins == {<<4, 4>>, <<10, 10>>, <<2, 3>>}

\* the requests of scenarios B and C
ScenarioSizes == {RectSize(12, 5), RectSize(8, 3), RectSize(3, 8)}

\* the requests of the single insert
Sizes ==
    {RectSize(1, 1), RectSize(2, 2), RectSize(3, 2), RectSize(1, 3), RectSize(1, 2)}
        \cup ScenarioSizes

\* the sizes the pending lists of the batch insert are made of
BatchSizes == {RectSize(2, 2), RectSize(3, 2), RectSize(1, 3)}

PendingLists == UNION {[1..n -> BatchSizes] : n \in 0..MaxPending}

(***************************************************************************)
(* The state machine.  pc is "idle" between calls and "batch" inside the   *)
(* while loop of the batch insert.  op records the last call and ret the   *)
(* Rect the last single insert returned; rotation is what main computes    *)
(* from it (90 when the returned Rect is the request turned); returnedArea *)
(* sums the areas of the placements handed back to the caller since the    *)
(* last init: the Rects insert returned and the entries of dst.  rects and *)
(* dst are the caller's vectors of the last batch insert; rects is         *)
(* observed until the caller's next call.  committed lists the Rects the   *)
(* last batch insert passed to placeRect.                                  *)
(***************************************************************************)
Init ==
    /\ binWidth = 0
    /\ binHeight = 0
    /\ freeRectangles = <<>>
    /\ usedRectangles = <<>>
    /\ pc = "idle"
    /\ rects = <<>>
    /\ dst = <<>>
    /\ method = "RectBestShortSideFit"
    /\ op = "construct"
    /\ ret = ZeroRect
    /\ rotation = 0
    /\ returnedArea = 0
    /\ committed = <<>>
    /\ pruneInput = <<>>
    /\ splitArgs = <<>>
    /\ splitRet = FALSE

init(width, height) ==
    /\ pc = "idle"
    /\ binWidth' = width
    /\ binHeight' = height
    /\ usedRectangles' = <<>>
    /\ freeRectangles' = <<Rect(0, 0, width, height)>>
    /\ op' = "init"
    /\ ret' = ZeroRect
    /\ rotation' = 0
    /\ returnedArea' = 0
    /\ rects' = <<>>
    /\ committed' = <<>>
    /\ UNCHANGED <<pc, dst, method, pruneInput, splitArgs, splitRet>>

insert(width, height, m) ==
    /\ pc = "idle"
    /\ Len(usedRectangles) < MaxUsed
    /\ \E r \in {insertRect(freeRectangles, usedRectangles, binWidth, binHeight, width, height, m)} :
           /\ freeRectangles' = r.free
           /\ usedRectangles' = r.used
           /\ ret' = r.newNode
           /\ returnedArea' = returnedArea + r.newNode.width * r.newNode.height
           /\ rotation' = IF width = r.newNode.height /\ r.newNode.width # r.newNode.height
                          THEN 90 ELSE 0
    /\ op' = "insert"
    /\ rects' = <<>>
    /\ committed' = <<>>
    /\ UNCHANGED <<binWidth, binHeight, pc, dst, method, pruneInput, splitArgs, splitRet>>

\* the batch insert up to its while loop: dst.clear()
insertBatch(sizes, m) ==
    /\ pc = "idle"
    /\ Len(usedRectangles) + MaxPending <= MaxUsed
    /\ pc' = "batch"
    /\ rects' = sizes
    /\ dst' = <<>>
    /\ method' = m
    /\ op' = "insertBatch"
    /\ ret' = ZeroRect
    /\ rotation' = 0
    /\ committed' = <<>>
    /\ UNCHANGED <<binWidth, binHeight, freeRectangles, usedRectangles, returnedArea, pruneInput, splitArgs, splitRet>>

\* one round of the while loop that places a rectangle
BatchRound ==
    /\ pc = "batch"
    /\ rects # <<>>
    /\ \E best \in {BestPending(rects, freeRectangles, usedRectangles, binWidth, binHeight, method)} :
           /\ best.bestRectIndex # 0
           /\ \E p \in {placeRect(freeRectangles, usedRectangles, best.bestNode)} :
                  /\ freeRectangles' = p.free
                  /\ usedRectangles' = p.used
           /\ rects' = Erase(rects, best.bestRectIndex)
           /\ committed' = Append(committed, best.bestNode)
    /\ op' = "batchRound"
    /\ UNCHANGED <<binWidth, binHeight, pc, dst, method, ret, rotation, returnedArea, pruneInput, splitArgs, splitRet>>

\* the batch insert returns: the pending list is empty, or bestRectIndex == -1
BatchReturn ==
    /\ pc = "batch"
    /\ \/ rects = <<>>
       \/ BestPending(rects, freeRectangles, usedRectangles, binWidth, binHeight, method).bestRectIndex = 0
    /\ pc' = "idle"
    /\ method' = "RectBestShortSideFit"
    /\ op' = "batchReturn"
    /\ returnedArea' = returnedArea + usedSurfaceArea(dst)
    /\ UNCHANGED <<binWidth, binHeight, freeRectangles, usedRectangles, rects, dst, ret, rotation,
                   committed, pruneInput, splitArgs, splitRet>>

Next ==
    \/ \E b \in Bins : init(b[1], b[2])
    \/ \E s \in Sizes, m \in Heuristics : insert(s.width, s.height, m)
    \/ \E sizes \in PendingLists, m \in Heuristics : insertBatch(sizes, m)
    \/ BatchRound
    \/ BatchReturn

Spec == Init /\ [][Next]_vars

(***************************************************************************)
(* The batch insert is a synchronous loop that nothing suspends: a call    *)
(* that has started goes on to its next round or to its return.  That is   *)
(* weak fairness of BatchRound \/ BatchReturn, written out with            *)
(* pc = "batch" for ENABLED <<BatchRound \/ BatchReturn>>_vars: inside the  *)
(* loop exactly one of the two is enabled (their guards are complementary) *)
(* and either changes the state, and outside it neither is enabled.        *)
(***************************************************************************)
BatchRunsOn ==
    \/ []<>(pc # "batch")
    \/ []<><<BatchRound \/ BatchReturn>>_vars

FairSpec == Spec /\ BatchRunsOn

(***************************************************************************)
(* pruneFreeList on its own: the free list starts as any list of at most   *)
(* MaxPruneLen rectangles of PruneRects (repetitions give exact            *)
(* duplicates, and PruneRects holds chains of nested rectangles), and      *)
(* pruneFreeList is run on it again and again; pruneInput keeps the list   *)
(* the first run was given.                                                *)
(***************************************************************************)
PruneRects == {Rect(x, y, w, h) : x \in 0..1, y \in 0..1, w \in 1..2, h \in 1..2}

PruneLists == UNION {[1..n -> PruneRects] : n \in 0..MaxPruneLen}

PruneInit ==
    /\ binWidth = 3
    /\ binHeight = 3
    /\ pruneInput \in PruneLists
    /\ freeRectangles = pruneInput
    /\ splitArgs = <<>>
    /\ splitRet = FALSE
    /\ usedRectangles = <<>>
    /\ pc = "idle"
    /\ rects = <<>>
    /\ dst = <<>>
    /\ method = "RectBestShortSideFit"
    /\ op = "construct"
    /\ ret = ZeroRect
    /\ rotation = 0
    /\ returnedArea = 0
    /\ committed = <<>>

PruneCall ==
    /\ freeRectangles' = pruneFreeList(freeRectangles)
    /\ op' = "pruneFreeList"
    /\ UNCHANGED <<binWidth, binHeight, usedRectangles, pc, rects, dst, method, ret, rotation,
                   returnedArea, committed, pruneInput, splitArgs, splitRet>>

PruneSpec == PruneInit /\ [][PruneCall]_vars

(***************************************************************************)
(* splitFreeNode on its own: the object holds the free node as its only    *)
(* free rectangle and splitFreeNode(freeRectangles[0], usedNode) is called *)
(* once. splitArgs keeps the two arguments and splitRet the value returned.*)
(***************************************************************************)
SplitRects ==
    {Rect(x, y, w, h) : x \in 0..(MaxSplit - 1), y \in 0..(MaxSplit - 1),
                        w \in 1..MaxSplit, h \in 1..MaxSplit}

SplitInit ==
    /\ binWidth = 2 * MaxSplit
    /\ binHeight = 2 * MaxSplit
    /\ splitArgs \in SplitRects \X SplitRects
    /\ freeRectangles = <<splitArgs[1]>>
    /\ splitRet = FALSE
    /\ usedRectangles = <<>>
    /\ pc = "idle"
    /\ rects = <<>>
    /\ dst = <<>>
    /\ method = "RectBestShortSideFit"
    /\ op = "construct"
    /\ ret = ZeroRect
    /\ rotation = 0
    /\ returnedArea = 0
    /\ committed = <<>>
    /\ pruneInput = <<>>

SplitCall ==
    /\ op = "construct"
    /\ \E r \in {splitFreeNode(splitArgs[1], splitArgs[2])} :
           /\ freeRectangles' = freeRectangles \o r.pushed
           /\ splitRet' = r.split
    /\ op' = "splitFreeNode"
    /\ UNCHANGED <<binWidth, binHeight, usedRectangles, pc, rects, dst, method, ret, rotation,
                   returnedArea, committed, pruneInput, splitArgs>>

SplitSpec == SplitInit /\ [][SplitCall]_vars

(***************************************************************************)
(* Vocabulary of the properties.                                           *)
(***************************************************************************)
\* freeRect takes a width x height rectangle in one of the two orientations
Fits(freeRect, width, height) ==
    \/ freeRect.width >= width /\ freeRect.height >= height
    \/ freeRect.width >= height /\ freeRect.height >= width

FitsAny(free, width, height) == \E k \in 1..Len(free) : Fits(free[k], width, height)

InsideBin(r) ==
    /\ r.x >= 0
    /\ r.y >= 0
    /\ r.x + r.width <= binWidth
    /\ r.y + r.height <= binHeight

\* what insert(width, height, m) does in the current state
InsertNow(width, height, m) ==
    insertRect(freeRectangles, usedRectangles, binWidth, binHeight, width, height, m)

\* what scoreRect(width, height, m) reports in the current state
ScoreNow(size, m) ==
    scoreRect(freeRectangles, usedRectangles, binWidth, binHeight, size.width, size.height, m)

\* (score1, score2) of a is not lexicographically above that of b
ScoreNotAbove(a, b) ==
    a.score1 < b.score1 \/ (a.score1 = b.score1 /\ a.score2 <= b.score2)

NoneContained(free) ==
    \A i, j \in 1..Len(free) : i # j => ~isContainedIn(free[i], free[j])

(***************************************************************************)
(* C1. After init and any sequence of single and batch insertions, every   *)
(* two distinct entries of the used-rectangle list are disjoint.           *)
(***************************************************************************)
UsedPairwiseDisjoint ==
    \A i, j \in 1..Len(usedRectangles) :
        i < j => disjoint(usedRectangles[i], usedRectangles[j])

\* three placements in a 4x4 bin, some by the single and some by the batch insert
UsedPairwiseDisjointWitness ==
    /\ binWidth = 4
    /\ Len(usedRectangles) = MaxUsed
    /\ op = "batchReturn"
    /\ committed # <<>>
    /\ returnedArea > 0

(***************************************************************************)
(* C2. Every rectangle returned by insert that is not the sentinel, and    *)
(* every rectangle the batch insert commits, lies inside the bin.          *)
(***************************************************************************)
PlacementsInsideBin ==
    /\ \A i \in 1..Len(usedRectangles) : InsideBin(usedRectangles[i])
    /\ \A i \in 1..Len(committed) : InsideBin(committed[i])
    /\ (op = "insert" /\ ret.height # 0) => InsideBin(ret)

\* a placement that reaches the right and the bottom edge of the 4x4 bin
PlacementsInsideBinWitness ==
    /\ binWidth = 4
    /\ op = "insert"
    /\ ret.height # 0
    /\ ret.x > 0
    /\ ret.x + ret.width = binWidth
    /\ ret.y + ret.height = binHeight
    /\ Len(usedRectangles) = MaxUsed

(***************************************************************************)
(* C3. A single insert that returns a Rect of height 0 leaves the free     *)
(* list and the used list as they were, for every heuristic; 12x5 into the *)
(* 10x10 bin is such an insert.                                            *)
(***************************************************************************)
FailedInsertChangesNothing ==
    [][/\ (op' = "insert" /\ ret'.height = 0)
           => (freeRectangles' = freeRectangles /\ usedRectangles' = usedRectangles)
       /\ (binWidth = 10 /\ binHeight = 10 /\ pc = "idle")
           => \A m \in Heuristics :
                  /\ InsertNow(12, 5, m).newNode.height = 0
                  /\ InsertNow(12, 5, m).free = freeRectangles
                  /\ InsertNow(12, 5, m).used = usedRectangles]_vars

\* a failed insert into a bin that holds two rectangles
FailedInsertWitness ==
    /\ op = "insert"
    /\ ret.height = 0
    /\ binWidth > 0
    /\ Len(usedRectangles) = 2

(***************************************************************************)
(* C4. In every state and for every heuristic, insert(w, h) returns the    *)
(* sentinel of height 0 exactly when no free rectangle takes w x h in      *)
(* either orientation, so all five heuristics succeed or fail together.    *)
(***************************************************************************)
SentinelIffNothingFits ==
    /\ \A s \in Sizes, m \in Heuristics :
           (InsertNow(s.width, s.height, m).newNode.height = 0)
               <=> ~FitsAny(freeRectangles, s.width, s.height)
    /\ (op = "insert" /\ ret.height # 0) => ret = usedRectangles[Len(usedRectangles)]

\* a 4x4 bin with two rectangles placed where 2x2 no longer fits and 1x1 does
SentinelIffNothingFitsWitness ==
    /\ binWidth = 4
    /\ pc = "idle"
    /\ Len(usedRectangles) >= 2
    /\ ~FitsAny(freeRectangles, 2, 2)
    /\ FitsAny(freeRectangles, 1, 1)
    /\ op = "insert"
    /\ ret.height = 0

(***************************************************************************)
(* C5. A successful insert(w, h) returns w x h or h x w at the origin of a *)
(* free rectangle of the list before the call that is at least as wide and *)
(* as high as the returned Rect; in the 10x10 bin holding 8x3 at the       *)
(* origin, insert(3, 8) with BestAreaFit returns 8x3.                      *)
(***************************************************************************)
ReturnedRectFitsAFreeRect ==
    /\ \A s \in Sizes, m \in Heuristics :
           LET r == InsertNow(s.width, s.height, m).newNode
           IN  r.height # 0 =>
                   /\ \/ (r.width = s.width /\ r.height = s.height)
                      \/ (r.width = s.height /\ r.height = s.width)
                   /\ \E k \in 1..Len(freeRectangles) :
                          /\ freeRectangles[k].x = r.x
                          /\ freeRectangles[k].y = r.y
                          /\ freeRectangles[k].width >= r.width
                          /\ freeRectangles[k].height >= r.height
    /\ (binWidth = 10 /\ binHeight = 10 /\ usedRectangles = <<Rect(0, 0, 8, 3)>>)
           => InsertNow(3, 8, "RectBestAreaFit").newNode = Rect(0, 3, 8, 3)

\* scenario C: 8x3, then a request that came back turned, as 8x3 below the first
ReturnedRectRotatedWitness ==
    /\ binWidth = 10
    /\ usedRectangles = <<Rect(0, 0, 8, 3), Rect(0, 3, 8, 3)>>
    /\ op = "insert"
    /\ ret = Rect(0, 3, 8, 3)
    /\ rotation = 90

(***************************************************************************)
(* C6. When the batch insert returns, dst holds exactly the rectangles the *)
(* call committed to the used list, in commit order.                       *)
(***************************************************************************)
BatchReturnsItsPlacements ==
    op = "batchReturn" => dst = committed

(***************************************************************************)
(* C7. In every round of the batch insert the size that is committed and   *)
(* removed has a (score1, score2), by scoreRect on the free list at the    *)
(* start of the round, that is lexicographically minimal among the sizes   *)
(* pending in that round.                                                  *)
(***************************************************************************)
RoundCommitsBestScore ==
    [][(pc = "batch" /\ op' = "batchRound") =>
          \E idx \in 1..Len(rects) :
              /\ rects' = Erase(rects, idx)
              /\ usedRectangles' = Append(usedRectangles, ScoreNow(rects[idx], method).newNode)
              /\ \A k \in 1..Len(rects) :
                     ScoreNotAbove(ScoreNow(rects[idx], method), ScoreNow(rects[k], method))]_vars

\* a round that chose the 3x2 size over the 1x3 size still pending
RoundCommitsBestScoreWitness ==
    /\ op = "batchRound"
    /\ Len(rects) = 1
    /\ Len(committed) = 1
    /\ committed[1].width * committed[1].height # rects[1].width * rects[1].height
    /\ rects[1] = RectSize(1, 3)
    /\ committed[1].width + committed[1].height = 5

(***************************************************************************)
(* C8. Every batch insert terminates; each round removes exactly one       *)
(* pending size and appends exactly one used rectangle; when it returns,   *)
(* the pending list is empty or none of the sizes left in it fits a free   *)
(* rectangle in either orientation.                                        *)
(***************************************************************************)
BatchTerminates ==
    /\ [][(pc = "batch" /\ pc' = "batch") =>
             /\ \E idx \in 1..Len(rects) : rects' = Erase(rects, idx)
             /\ Len(usedRectangles') = Len(usedRectangles) + 1
             /\ SubSeq(usedRectangles', 1, Len(usedRectangles)) = usedRectangles]_vars
    /\ [](op = "batchReturn" =>
             \A k \in 1..Len(rects) : ~FitsAny(freeRectangles, rects[k].width, rects[k].height))
    /\ (pc = "batch" ~> pc = "idle")

\* a batch insert that returned with a size left unpacked after packing another
BatchTerminatesWitness ==
    /\ op = "batchReturn"
    /\ rects # <<>>
    /\ committed # <<>>

(***************************************************************************)
(* C9. After init and any sequence of insertions, the sum of width*height  *)
(* over the used list (the numerator of occupancy) equals the sum of the   *)
(* areas of the placements returned since the last init and is at most     *)
(* binWidth * binHeight.                                                   *)
(***************************************************************************)
OccupancyCountsReturnedPlacements ==
    (binWidth > 0 /\ pc = "idle") =>
        /\ usedSurfaceArea(usedRectangles) = returnedArea
        /\ usedSurfaceArea(usedRectangles) <= binWidth * binHeight

(***************************************************************************)
(* C10. pruneFreeList is idempotent: after one run no free rectangle is    *)
(* contained in another one of the list, and a second run leaves the list  *)
(* as the first run left it.                                               *)
(***************************************************************************)
PruneIdempotent ==
    /\ pruneFreeList(pruneFreeList(pruneInput)) = pruneFreeList(pruneInput)
    /\ op = "pruneFreeList" =>
           /\ pruneFreeList(freeRectangles) = freeRectangles
           /\ NoneContained(freeRectangles)

\* a run on a nested pair followed by an exact duplicate of the larger one
PruneIdempotentWitness ==
    /\ op = "pruneFreeList"
    /\ pruneInput = <<Rect(0, 0, 2, 2), Rect(0, 0, 1, 1), Rect(0, 0, 2, 2)>>
    /\ freeRectangles = <<Rect(0, 0, 2, 2)>>

(***************************************************************************)
(* Vocabulary of the contact score.                                        *)
(***************************************************************************)
\* the placements findPositionForNewNode* chooses among: width x height or
\* height x width at the corner of a free rectangle that is large enough
Candidates(free, width, height) ==
    {Rect(free[k].x, free[k].y, width, height) :
        k \in {n \in 1..Len(free) : free[n].width >= width /\ free[n].height >= height}}
    \cup
    {Rect(free[k].x, free[k].y, height, width) :
        k \in {n \in 1..Len(free) : free[n].width >= height /\ free[n].height >= width}}

\* length shared by the intervals [a1, a2] and [b1, b2]
SharedLength(a1, a2, b1, b2) ==
    IF min(a2, b2) > max(a1, b1) THEN min(a2, b2) - max(a1, b1) ELSE 0

\* length along which an edge of r lies on an edge of the used rectangle u
AbutLength(r, u) ==
    (IF u.x = r.x + r.width \/ u.x + u.width = r.x
     THEN SharedLength(u.y, u.y + u.height, r.y, r.y + r.height) ELSE 0)
    + (IF u.y = r.y + r.height \/ u.y + u.height = r.y
       THEN SharedLength(u.x, u.x + u.width, r.x, r.x + r.width) ELSE 0)

RECURSIVE UsedAbutLength(_, _, _)
UsedAbutLength(r, used, k) ==
    IF k > Len(used) THEN 0 ELSE AbutLength(r, used[k]) + UsedAbutLength(r, used, k + 1)

\* every edge of r that lies on the bin boundary counts with its length
EdgeSumContact(r) ==
    (IF r.x = 0 THEN r.height ELSE 0)
    + (IF r.x + r.width = binWidth THEN r.height ELSE 0)
    + (IF r.y = 0 THEN r.width ELSE 0)
    + (IF r.y + r.height = binHeight THEN r.width ELSE 0)
    + UsedAbutLength(r, usedRectangles, 1)

\* the left and the right edge count once between them, and so do the top
\* and the bottom edge
AxisOnceContact(r) ==
    (IF r.x = 0 \/ r.x + r.width = binWidth THEN r.height ELSE 0)
    + (IF r.y = 0 \/ r.y + r.height = binHeight THEN r.width ELSE 0)
    + UsedAbutLength(r, usedRectangles, 1)

ContactNow(size) ==
    findPositionForNewNodeContactPoint(freeRectangles, usedRectangles, binWidth, binHeight,
                                       size.width, size.height)

CellIn(i, j, r) ==
    /\ r.x <= i /\ i < r.x + r.width
    /\ r.y <= j /\ j < r.y + r.height

CellInSome(i, j, list) == \E k \in 1..Len(list) : CellIn(i, j, list[k])

\* two rectangles share a cell
Overlap(a, b) == ~disjoint(a, b)

(***************************************************************************)
(* C12. After init(W,H) and any sequence of insertions, single or batch,   *)
(* every unit cell of the bin lies in some free rectangle if and only if   *)
(* it lies in no used rectangle.                                           *)
(***************************************************************************)
FreeCoversExactlyUncovered ==
    \A i \in 0..(binWidth - 1), j \in 0..(binHeight - 1) :
        CellInSome(i, j, freeRectangles) <=> ~CellInSome(i, j, usedRectangles)

\* three placements, free rectangles that overlap each other, and uncovered
\* cells left in the bin
FreeCoversWitness ==
    /\ binWidth = 4
    /\ op = "insert"
    /\ ret.height # 0
    /\ Len(usedRectangles) = MaxUsed
    /\ \E a, b \in 1..Len(freeRectangles) : a < b /\ Overlap(freeRectangles[a], freeRectangles[b])

(***************************************************************************)
(* Vocabulary of splitFreeNode's residuals.                                *)
(***************************************************************************)
\* r lies inside f
Within(r, f) ==
    /\ f.x <= r.x /\ r.x + r.width <= f.x + f.width
    /\ f.y <= r.y /\ r.y + r.height <= f.y + f.height

\* the sides on which f extends beyond u
SidesBeyond(f, u) ==
    {side \in {"above", "below", "left", "right"} :
        \/ side = "above" /\ f.y < u.y
        \/ side = "below" /\ u.y + u.height < f.y + f.height
        \/ side = "left" /\ f.x < u.x
        \/ side = "right" /\ u.x + u.width < f.x + f.width}

\* the part of f on the given side of u
SideOf(side, f, u) ==
    CASE side = "above" -> Rect(f.x, f.y, f.width, u.y - f.y)
      [] side = "below" -> Rect(f.x, u.y + u.height, f.width, f.y + f.height - (u.y + u.height))
      [] side = "left" -> Rect(f.x, f.y, u.x - f.x, f.height)
      [] side = "right" -> Rect(u.x + u.width, f.y, f.x + f.width - (u.x + u.width), f.height)

\* what the call appended to freeRectangles, which held the free node alone
SplitPushed == SubSeq(freeRectangles, 2, Len(freeRectangles))

(***************************************************************************)
(* C13. splitFreeNode(freeRect, usedRect) returns false and appends        *)
(* nothing when the two rectangles do not overlap; when they overlap it    *)
(* returns true and appends at most four residuals, one for each side      *)
(* (above, below, left, right) on which freeRect extends beyond usedRect,  *)
(* each of positive width and height, inside freeRect, not overlapping     *)
(* usedRect, and together covering every cell of freeRect outside usedRect.*)
(***************************************************************************)
SplitResiduals ==
    op = "splitFreeNode" =>
        LET f == splitArgs[1]
            u == splitArgs[2]
        IN  /\ ~Overlap(f, u) => (~splitRet /\ SplitPushed = <<>>)
            /\ Overlap(f, u) =>
                   /\ splitRet
                   /\ Len(SplitPushed) <= 4
                   /\ Len(SplitPushed) = Cardinality(SidesBeyond(f, u))
                   /\ \A side \in SidesBeyond(f, u) :
                          \E k \in 1..Len(SplitPushed) : SplitPushed[k] = SideOf(side, f, u)
                   /\ \A k \in 1..Len(SplitPushed) :
                          /\ SplitPushed[k].width > 0
                          /\ SplitPushed[k].height > 0
                          /\ Within(SplitPushed[k], f)
                          /\ ~Overlap(SplitPushed[k], u)
                   /\ \A i \in 0..(binWidth - 1), j \in 0..(binHeight - 1) :
                          (CellIn(i, j, f) /\ ~CellIn(i, j, u)) => CellInSome(i, j, SplitPushed)

\* a used rectangle in the middle of the free rectangle: four residuals
SplitResidualsWitness ==
    /\ op = "splitFreeNode"
    /\ splitRet
    /\ Len(SplitPushed) = 4
    /\ splitArgs[2] = Rect(1, 1, 1, 1)

(***************************************************************************)
(* Vocabulary of the scorers' keys.                                        *)
(***************************************************************************)
KeyedHeuristics ==
    {"RectBestShortSideFit", "RectBestLongSideFit", "RectBestAreaFit", "RectBottomLeftRule"}

\* the size a width x height request is placed with in the given orientation
Oriented(size, o) ==
    IF o = "upright" THEN size ELSE RectSize(size.height, size.width)

\* the (free rectangle, orientation) pairs the request qualifies for
QualifyingPairs(free, size) ==
    {p \in (1..Len(free)) \X {"upright", "rotated"} :
        /\ free[p[1]].width >= Oriented(size, p[2]).width
        /\ free[p[1]].height >= Oriented(size, p[2]).height}

PlacementOf(free, size, p) ==
    Rect(free[p[1]].x, free[p[1]].y, Oriented(size, p[2]).width, Oriented(size, p[2]).height)

ShortGap(free, size, p) ==
    min(free[p[1]].width - Oriented(size, p[2]).width,
        free[p[1]].height - Oriented(size, p[2]).height)

LongGap(free, size, p) ==
    max(free[p[1]].width - Oriented(size, p[2]).width,
        free[p[1]].height - Oriented(size, p[2]).height)

\* the key of the pair p under heuristic m
KeyOf(free, size, p, m) ==
    CASE m = "RectBestShortSideFit" -> <<ShortGap(free, size, p), LongGap(free, size, p)>>
      [] m = "RectBestLongSideFit" -> <<LongGap(free, size, p), ShortGap(free, size, p)>>
      [] m = "RectBestAreaFit" ->
             <<free[p[1]].width * free[p[1]].height - size.width * size.height,
               ShortGap(free, size, p)>>
      [] m = "RectBottomLeftRule" ->
             <<free[p[1]].y + Oriented(size, p[2]).height, free[p[1]].x>>

LexNotAbove(a, b) == a[1] < b[1] \/ (a[1] = b[1] /\ a[2] <= b[2])

(***************************************************************************)
(* C14. For each of BestShortSideFit, BestLongSideFit, BestAreaFit and     *)
(* BottomLeft, the placement scoreRect returns is that of a qualifying     *)
(* (free rectangle, orientation) pair whose key is lexicographically       *)
(* minimal over all qualifying pairs of the current free list, the keys    *)
(* being (short gap, long gap), (long gap, short gap), (free area minus    *)
(* requested area, short gap) and (y plus placed height, x); the scores    *)
(* reported are that key.                                                  *)
(***************************************************************************)
ScorerReturnsMinimalKey ==
    \A s \in Sizes, m \in KeyedHeuristics :
        QualifyingPairs(freeRectangles, s) # {} =>
            \E p \in QualifyingPairs(freeRectangles, s) :
                /\ ScoreNow(s, m).newNode = PlacementOf(freeRectangles, s, p)
                /\ <<ScoreNow(s, m).score1, ScoreNow(s, m).score2>> = KeyOf(freeRectangles, s, p, m)
                /\ \A q \in QualifyingPairs(freeRectangles, s) :
                       LexNotAbove(KeyOf(freeRectangles, s, p, m), KeyOf(freeRectangles, s, q, m))

\* after two placements, a request for which BestLongSideFit decides between
\* two pairs of equal long gap by the short gap, and returns a rotated placement
ScorerReturnsMinimalKeyWitness ==
    /\ Len(usedRectangles) >= 2
    /\ \E s \in Sizes :
           /\ s.width # s.height
           /\ ScoreNow(s, "RectBestLongSideFit").newNode.width = s.height
           /\ \E p, q \in QualifyingPairs(freeRectangles, s) :
                  /\ KeyOf(freeRectangles, s, p, "RectBestLongSideFit")[1]
                         = KeyOf(freeRectangles, s, q, "RectBestLongSideFit")[1]
                  /\ KeyOf(freeRectangles, s, p, "RectBestLongSideFit")[2]
                         < KeyOf(freeRectangles, s, q, "RectBestLongSideFit")[2]
                  /\ ScoreNow(s, "RectBestLongSideFit").score1
                         = KeyOf(freeRectangles, s, p, "RectBestLongSideFit")[1]

(***************************************************************************)
(* Vocabulary of the empty rectangles.                                     *)
(***************************************************************************)
\* r lies in the bin and overlaps no used rectangle
EmptyInBin(r) ==
    /\ InsideBin(r)
    /\ \A k \in 1..Len(usedRectangles) : disjoint(r, usedRectangles[k])

\* the placements of a width x height request, upright or rotated, at the
\* integer positions of the bin where it is empty
EmptyPlacements(size) ==
    {r \in {Rect(x, y, Oriented(size, o).width, Oriented(size, o).height) :
                x \in 0..(binWidth - 1), y \in 0..(binHeight - 1), o \in {"upright", "rotated"}} :
        EmptyInBin(r)}

(***************************************************************************)
(* C15. After init(W,H) and any sequence of insertions, if a w x h         *)
(* rectangle or its rotation lies somewhere in the bin at an integer       *)
(* position without overlapping a used rectangle, then it lies inside some *)
(* free rectangle there, and insert(w, h, heuristic) succeeds for every    *)
(* heuristic.                                                              *)
(***************************************************************************)
InsertSucceedsWhereverItFits ==
    \A s \in Sizes :
        /\ \A r \in EmptyPlacements(s) :
               \E k \in 1..Len(freeRectangles) : Within(r, freeRectangles[k])
        /\ EmptyPlacements(s) # {} =>
               \A m \in Heuristics : InsertNow(s.width, s.height, m).newNode.height # 0

\* a full bin of placements in which a request still fits, rotated only and
\* away from the corner of the one free rectangle that takes it
InsertSucceedsWitness ==
    /\ op = "insert"
    /\ ret.height # 0
    /\ Len(usedRectangles) = MaxUsed
    /\ Len(freeRectangles) >= 2
    /\ \E s \in Sizes :
           /\ EmptyPlacements(s) # {}
           /\ \A r \in EmptyPlacements(s) : r.width = s.height /\ r.width # r.height
           /\ Cardinality({k \in 1..Len(freeRectangles) :
                              Fits(freeRectangles[k], s.width, s.height)}) = 1
           /\ \E r \in EmptyPlacements(s) :
                  \A k \in 1..Len(freeRectangles) :
                      r.x # freeRectangles[k].x \/ r.y # freeRectangles[k].y

====
